---- MODULE Spec2Model ----
(***************************************************************************)
(* Model of the image-sharing hotspot web application.                     *)
(*                                                                         *)
(*   src/main.py     the Flask application: /, /upload, /disconnect,       *)
(*                   /gallery, /image/<filename>, /stats                   *)
(*   src/qr-code.py  FLASK_INTEGRATION_EXAMPLE: the session-tracking       *)
(*                   variant with the background idle sweep                *)
(*                                                                         *)
(* Strings whose content matters (file names, subprocess output) are       *)
(* sequences of ASCII codes, so that sanitising, formatting, suffix tests, *)
(* ordering and integer parsing are computed as the code computes them.    *)
(*                                                                         *)
(* Environment assumptions: the upload directory exists (main.py:19) and   *)
(* the event log of main.py is writable; the wall clock never runs         *)
(* backwards.                                                              *)
(***************************************************************************)
EXTENDS Integers, Sequences, FiniteSets, TLC

\* ------------------------------------------------------------------ bounds

\* main.py: the clock runs over the seconds 0..MaxClock of one day
MaxClock == 1
\* main.py: the POST /upload requests carry at most MaxFiles file entries in all
MaxFiles == 4
\* main.py: the other handlers append at most MaxEvents entries to the event log
MaxEvents == 3
\* qr-code.py: the wall clock advances at most MaxTicks times
MaxTicks == 2
\* qr-code.py: the request handlers append at most MaxActivity entries to the
\* activity log
MaxActivity == 2

\* ------------------------------------------------------------- main.py state

VARIABLES
    clock,      \* datetime.now(), in seconds since midnight
    dir,        \* the files of UPLOAD_FOLDER: a set of stored file names
    log,        \* /var/log/image-hotspot/events.log: a sequence of entries
    inflight,   \* per request worker: the POST /upload it is executing
    resp,       \* the response most recently produced
    saves,      \* history: every file.save() in order, with its clock second
    received,   \* history: the file entries received by POST /upload so far
    okKicks     \* history: per client IP, the kicks that exited with status 0

mainVars == <<clock, dir, log, inflight, resp, saves, received, okKicks>>

\* ---------------------------------- qr-code.py (FLASK_INTEGRATION_EXAMPLE) state

VARIABLES
    wall,           \* datetime.now(), in minutes
    user_sessions,  \* the dict, in insertion order: a sequence of [ip, session]
    heap,           \* the session dicts by identity: [connected_at, last_activity]
    activity,       \* user_activity.log: a sequence of entries
    uploads,        \* the files of the 'uploads' directory
    sweep,          \* the thread check_and_disconnect: its position and locals
    cycle,          \* history: what the sweep cycle in progress has done so far
    disconnected    \* history: IPs with a handled /disconnect and no visit of / since

sessVars ==
    <<wall, user_sessions, heap, activity, uploads, sweep, cycle, disconnected>>

vars == <<mainVars, sessVars>>

\* --------------------------------------------------------------- strings

\* str.lower() on one character
Lower(c) == IF c \in 65..90 THEN c + 32 ELSE c

LowerStr(s) == [i \in 1..Len(s) |-> Lower(s[i])]

\* str.endswith(suf)
EndsWith(s, suf) ==
    /\ Len(s) >= Len(suf)
    /\ SubSeq(s, Len(s) - Len(suf) + 1, Len(s)) = suf

\* Python's ordering of str: lexicographic by code point
RECURSIVE LessFrom(_, _, _)
LessFrom(a, b, i) ==
    IF i > Len(b) THEN FALSE
    ELSE IF i > Len(a) THEN TRUE
    ELSE IF a[i] = b[i] THEN LessFrom(a, b, i + 1)
    ELSE a[i] < b[i]

StrLess(a, b) == LessFrom(a, b, 1)

IsSpace(c) == c \in {32, 9, 10, 13}

RECURSIVE LStrip(_, _)
LStrip(s, chars) ==
    IF s # <<>> /\ Head(s) \in chars THEN LStrip(Tail(s), chars) ELSE s

RECURSIVE RStrip(_, _)
RStrip(s, chars) ==
    IF s # <<>> /\ s[Len(s)] \in chars
    THEN RStrip(SubSeq(s, 1, Len(s) - 1), chars)
    ELSE s

\* str.strip(chars)
Strip(s, chars) == RStrip(LStrip(s, chars), chars)

\* "_".join(s.split()) on a string without leading or trailing blanks
RECURSIVE JoinWords(_)
JoinWords(s) ==
    IF s = <<>> THEN <<>>
    ELSE IF IsSpace(Head(s))
         THEN IF Len(s) > 1 /\ IsSpace(s[2])
              THEN JoinWords(Tail(s))
              ELSE <<95>> \o JoinWords(Tail(s))
         ELSE <<Head(s)>> \o JoinWords(Tail(s))

\* the characters werkzeug keeps: A-Z a-z 0-9 _ . -
SafeChar(c) ==
    \/ c \in 65..90
    \/ c \in 97..122
    \/ c \in 48..57
    \/ c \in {95, 46, 45}

\* werkzeug.utils.secure_filename on an ASCII name (POSIX: os.sep = "/")
SecureFilename(name) ==
    LET spaced == [i \in 1..Len(name) |-> IF name[i] = 47 THEN 32 ELSE name[i]]
        joined == JoinWords(Strip(spaced, {32, 9, 10, 13}))
        kept   == SelectSeq(joined, SafeChar)
    IN  Strip(kept, {46, 95})

TwoDigits(n) == <<48 + (n \div 10), 48 + (n % 10)>>

\* the day the model's clock runs in: "20260101_"
DatePrefix == <<50, 48, 50, 54, 48, 49, 48, 49, 95>>

\* datetime.now().strftime('%Y%m%d_%H%M%S') at second t of that day
Strftime(t) ==
    DatePrefix \o TwoDigits((t \div 3600) % 24)
               \o TwoDigits((t \div 60) % 60)
               \o TwoDigits(t % 60)

\* f"{timestamp}_{original_name}"
StoredName(t, original) == Strftime(t) \o <<95>> \o original

\* ------------------------------------------------------------- inputs

\* client addresses
IPs == {"10.0.0.2", "10.0.0.3"}

\* request workers (one thread per request in flight)
Workers == {1, 2}

\* a request as get_client_ip sees it: the X-Forwarded-For values and the peer
Requests ==
    { [xff |-> <<>>, remote |-> "10.0.0.2"],
      [xff |-> <<"10.0.0.3">>, remote |-> "10.0.0.2"],
      [xff |-> <<"10.0.0.3", "10.0.0.2">>, remote |-> "10.0.0.3"] }

\* submitted file names: "", "a.jpg", "B.PNG", "x/notes.txt"
NoName    == <<>>
NameA     == <<97, 46, 106, 112, 103>>
NameB     == <<66, 46, 80, 78, 71>>
NameNotes == <<120, 47, 110, 111, 116, 101, 115, 46, 116, 120, 116>>

\* the 'files[]' lists a POST /upload may carry (<<>>: the field is absent)
Batches ==
    { <<>>, <<NoName, NoName>>, <<NameA, NameA>>, <<NameA, NameNotes, NameB>> }

\* how a run of manage-hotspot-users.sh ends: exit 0, exit non-zero, or the
\* script cannot be started (OSError from subprocess.run)
KickOutcomes == {"ok", "nonzero", "oserror"}

\* runs of 'manage-hotspot-users.sh count': exit 0 printing "2\n", exit 0
\* printing "abc", exit 0 printing nothing, exit 1, and the script not starting
CountsTwo == [kind |-> "ran", rc |-> 0, out |-> <<50, 10>>]

CountRuns ==
    { CountsTwo,
      [kind |-> "ran", rc |-> 0, out |-> <<97, 98, 99>>],
      [kind |-> "ran", rc |-> 0, out |-> <<>>],
      [kind |-> "ran", rc |-> 1, out |-> <<97, 98, 99>>],
      [kind |-> "oserror", rc |-> 0, out |-> <<>>] }

\* --------------------------------------------------------------- main.py

\* get_client_ip
GetClientIp(r) == IF Len(r.xff) > 0 THEN r.xff[1] ELSE r.remote

\* log_event: one entry appended to the event log
LogEntry(ip, action, count, files, details) ==
    [timestamp |-> clock, ip |-> ip, action |-> action,
     count |-> count, files |-> files, details |-> details]

LogEvent(ip, action, count, files, details) ==
    Append(log, LogEntry(ip, action, count, files, details))

\* the fields a response can carry; a handler fills the ones it sets
NoResp ==
    [route |-> "", status |-> 0, view |-> "", ip |-> "",
     raw |-> <<>>, files |-> <<>>, total_uploaded |-> 0, written |-> {},
     kick |-> "", images |-> <<>>, seen |-> {}, upto |-> 0,
     run |-> [kind |-> "", rc |-> 0, out |-> <<>>],
     images_uploaded |-> 0, current_connections |-> 0]

Idle ==
    [active |-> FALSE, ip |-> "", raw |-> <<>>, todo |-> <<>>,
     uploaded |-> <<>>, written |-> {}]

\* the number of POST /upload requests in flight (each will log one entry)
InFlight == Cardinality({w \in Workers : inflight[w].active})

\* the worker that takes the next request: the first one that is free
FreeWorker ==
    IF \E w \in Workers : ~inflight[w].active
    THEN CHOOSE w \in Workers :
             ~inflight[w].active /\ \A v \in Workers : v < w => inflight[v].active
    ELSE CHOOSE w \in Workers : TRUE

\* a POST /upload with n file entries may enter the loop over the files
UploadRoom(n) == received + n <= MaxFiles

\* one more entry of a handler other than POST /upload may be logged
LogRoom ==
    Cardinality({i \in 1..Len(log) : log[i].action # "uploaded"}) < MaxEvents

\* disconnect_user as it would be without check=True: a non-zero exit is not
\* noticed
DisconnectUser_NoCheck(outcome) ==
    IF outcome = "oserror" THEN "raise" ELSE "true"

\* disconnect_user: "true", "false", or "raise" when the exception escapes
DisconnectUser(outcome) ==
    CASE outcome = "ok"      -> "true"
      [] outcome = "nonzero" -> "false"
      [] OTHER               -> "raise"

\* the test of line 71 left out: every entry is saved
IsValidFile_Any(name) == TRUE

\* the test of line 71: file and file.filename != ''
IsValidFile(name) == name # <<>>

ImageExts ==
    { <<46, 112, 110, 103>>, <<46, 106, 112, 103>>,
      <<46, 106, 112, 101, 103>>, <<46, 103, 105, 102>> }

\* filename.lower().endswith(('.png', '.jpg', '.jpeg', '.gif'))
IsImage(filename) == \E ext \in ImageExts : EndsWith(LowerStr(filename), ext)

MaxStr(S) == CHOOSE x \in S : \A y \in S \ {x} : StrLess(y, x)

MinStr(S) == CHOOSE x \in S : \A y \in S \ {x} : StrLess(x, y)

\* images.sort() without reverse=True
RECURSIVE SortAsc(_)
SortAsc(S) ==
    IF S = {} THEN <<>> ELSE <<MinStr(S)>> \o SortAsc(S \ {MinStr(S)})

\* images.sort(reverse=True)
RECURSIVE SortDesc(_)
SortDesc(S) ==
    IF S = {} THEN <<>> ELSE <<MaxStr(S)>> \o SortDesc(S \ {MaxStr(S)})

RECURSIVE DigitsValue(_)
DigitsValue(s) ==
    IF s = <<>> THEN 0 ELSE 10 * DigitsValue(SubSeq(s, 1, Len(s) - 1)) + (s[Len(s)] - 48)

\* int(stdout.strip()): ok = FALSE stands for ValueError
ParseInt(s) ==
    LET t      == Strip(s, {32, 9, 10, 13})
        signed == t # <<>> /\ Head(t) \in {43, 45}
        digits == IF signed THEN Tail(t) ELSE t
        ok     == digits # <<>> /\ \A i \in 1..Len(digits) : digits[i] \in 48..57
        mag    == IF ok THEN DigitsValue(digits) ELSE 0
    IN  [ok |-> ok, value |-> IF signed /\ Head(t) = 45 THEN 0 - mag ELSE mag]

InitMain ==
    /\ clock = 0
    /\ dir = {}
    /\ log = <<>>
    /\ inflight = [w \in Workers |-> Idle]
    /\ resp = NoResp
    /\ saves = <<>>
    /\ received = 0
    /\ okKicks = [i \in IPs |-> 0]

\* a second passes
Tick ==
    /\ clock < MaxClock
    /\ clock' = clock + 1
    /\ UNCHANGED <<dir, log, inflight, resp, saves, received, okKicks, sessVars>>

\* GET /
Index(r) ==
    /\ LogRoom
    /\ log' = LogEvent(GetClientIp(r), "connected", 0, <<>>, "")
    /\ resp' = [NoResp EXCEPT !.route = "index", !.status = 302,
                              !.view = "/upload", !.ip = GetClientIp(r)]
    /\ UNCHANGED <<clock, dir, inflight, saves, received, okKicks, sessVars>>

\* GET /upload
UploadGet(r) ==
    /\ LogRoom
    /\ log' = LogEvent(GetClientIp(r), "viewing_upload_page", 0, <<>>, "")
    /\ resp' = [NoResp EXCEPT !.route = "upload_get", !.status = 200,
                              !.view = "upload.html", !.ip = GetClientIp(r)]
    /\ UNCHANGED <<clock, dir, inflight, saves, received, okKicks, sessVars>>

\* POST /upload, lines 61-68: without the 'files[]' field the request ends
\* with 400; otherwise the worker enters the loop over the files
UploadPost(w, r, files) ==
    /\ ~inflight[w].active
    /\ IF files = <<>>
       THEN /\ resp' = [NoResp EXCEPT !.route = "upload_post", !.status = 400,
                                      !.view = "No files selected",
                                      !.ip = GetClientIp(r), !.raw = files]
            /\ UNCHANGED <<inflight, received>>
       ELSE /\ UploadRoom(Len(files))
            /\ received' = received + Len(files)
            /\ inflight' = [inflight EXCEPT ![w] =
                               [active |-> TRUE, ip |-> GetClientIp(r), raw |-> files,
                                todo |-> files, uploaded |-> <<>>, written |-> {}]]
            /\ UNCHANGED resp
    /\ UNCHANGED <<clock, dir, log, saves, okKicks, sessVars>>

\* POST /upload, lines 70-79: one iteration of the loop over the files
UploadFile(w) ==
    /\ inflight[w].active
    /\ inflight[w].todo # <<>>
    /\ LET name          == Head(inflight[w].todo)
           original_name == SecureFilename(name)
           filename      == StoredName(clock, original_name)
       IN  IF IsValidFile(name)
           THEN /\ dir' = dir \cup {filename}
                /\ saves' = Append(saves, [name |-> filename, at |-> clock])
                /\ inflight' = [inflight EXCEPT
                                   ![w].todo = Tail(@),
                                   ![w].uploaded = Append(@, original_name),
                                   ![w].written = @ \cup {filename}]
           ELSE /\ inflight' = [inflight EXCEPT ![w].todo = Tail(@)]
                /\ UNCHANGED <<dir, saves>>
    /\ UNCHANGED <<clock, log, resp, received, okKicks, sessVars>>

\* POST /upload, lines 81-87: the 'uploaded' event and the success view
UploadDone(w) ==
    /\ inflight[w].active
    /\ inflight[w].todo = <<>>
    /\ log' = LogEvent(inflight[w].ip, "uploaded", Len(inflight[w].uploaded),
                       inflight[w].uploaded, "")
    /\ resp' = [NoResp EXCEPT !.route = "upload_post", !.status = 200,
                              !.view = "upload_success.html",
                              !.ip = inflight[w].ip,
                              !.raw = inflight[w].raw,
                              !.files = inflight[w].uploaded,
                              !.total_uploaded = Len(inflight[w].uploaded),
                              !.written = inflight[w].written]
    /\ inflight' = [inflight EXCEPT ![w] = Idle]
    /\ UNCHANGED <<clock, dir, saves, received, okKicks, sessVars>>

\* GET /disconnect; an exception escaping disconnect_user is Flask's 500
AutoDisconnect(r, outcome) ==
    LET client_ip == GetClientIp(r)
        kicked    == DisconnectUser(outcome)
    IN  /\ kicked = "true" => LogRoom
        /\ okKicks' = IF outcome = "ok"
                      THEN [okKicks EXCEPT ![client_ip] = @ + 1]
                      ELSE okKicks
        /\ log' = IF kicked = "true"
                  THEN LogEvent(client_ip, "disconnected", 0, <<>>, "user_requested")
                  ELSE log
        /\ resp' = [NoResp EXCEPT
                       !.route = "disconnect", !.ip = client_ip, !.kick = outcome,
                       !.status = IF kicked = "raise" THEN 500 ELSE 200,
                       !.view = CASE kicked = "true"  -> "disconnected.html"
                                  [] kicked = "false" -> "disconnect_manual.html"
                                  [] OTHER            -> "internal_server_error"]
        /\ UNCHANGED <<clock, dir, inflight, saves, received, sessVars>>

\* GET /gallery
Gallery ==
    /\ resp' = [NoResp EXCEPT !.route = "gallery", !.status = 200,
                              !.view = "gallery.html",
                              !.images = SortDesc({f \in dir : IsImage(f)}),
                              !.seen = dir, !.upto = Len(saves)]
    /\ UNCHANGED <<clock, dir, log, inflight, saves, received, okKicks, sessVars>>

\* GET /image/<filename>: send_from_directory is not imported (NameError)
ServeImage ==
    /\ resp' = [NoResp EXCEPT !.route = "image", !.status = 500,
                              !.view = "internal_server_error"]
    /\ UNCHANGED <<clock, dir, log, inflight, saves, received, okKicks, sessVars>>

\* GET /stats
Stats(run) ==
    LET image_count == Cardinality({f \in dir : IsImage(f)})
        parsed      == ParseInt(run.out)
        raised      == run.kind = "oserror" \/ (run.rc = 0 /\ ~parsed.ok)
        connections == IF run.rc = 0 THEN parsed.value ELSE 0
    IN  /\ resp' = IF raised
                   THEN [NoResp EXCEPT !.route = "stats", !.status = 500,
                                       !.view = "error", !.run = run]
                   ELSE [NoResp EXCEPT !.route = "stats", !.status = 200,
                                       !.view = "active", !.run = run,
                                       !.images_uploaded = image_count,
                                       !.current_connections = connections]
        /\ UNCHANGED <<clock, dir, log, inflight, saves, received, okKicks, sessVars>>

\* ------------------------------------ qr-code.py: FLASK_INTEGRATION_EXAMPLE
\* The example runs inside an application that provides secure_filename, as
\* main.py does.

\* timedelta(minutes=30), in minutes
IdleMinutes == 30
\* time.sleep(300), in minutes
SleepMinutes == 5

\* requests as the helper get_client_ip(request) sees them; "" is a missing
\* HTTP_X_FORWARDED_FOR
SessRequests ==
    { [forwarded |-> "", remote |-> "10.0.0.2"],
      [forwarded |-> "10.0.0.3", remote |-> "10.0.0.2"] }

\* GET /upload, or POST /upload without the 'file' field, with an empty file
\* name, or with the file "a.jpg"
Posts ==
    { [method |-> "GET", field |-> FALSE, filename |-> NoName],
      [method |-> "POST", field |-> FALSE, filename |-> NoName],
      [method |-> "POST", field |-> TRUE, filename |-> NoName],
      [method |-> "POST", field |-> TRUE, filename |-> NameA] }

\* identities of session dicts: one per key of the dict and one per entry of
\* the sweep's snapshot can be alive at a time, and one more while a key is
\* being reassigned
ObjIds == 1..(2 * Cardinality(IPs) + 1)

\* get_client_ip(request) of qr-code.py
SessClientIp(r) == IF r.forwarded = "" THEN r.remote ELSE r.forwarded

NoItem == [ip |-> "", session |-> 0]

\* the keys of user_sessions
Keys(us) == {us[i].ip : i \in 1..Len(us)}

\* user_sessions[ip]: the identity of the session dict
Lookup(us, ip) == us[CHOOSE i \in 1..Len(us) : us[i].ip = ip].session

\* user_sessions[ip] = session: a present key keeps its place in the order
Assign(us, ip, o) ==
    IF ip \in Keys(us)
    THEN [i \in 1..Len(us) |-> IF us[i].ip = ip THEN [ip |-> ip, session |-> o] ELSE us[i]]
    ELSE Append(us, [ip |-> ip, session |-> o])

\* del user_sessions[ip]
Delete(us, ip) == SelectSeq(us, LAMBDA e : e.ip # ip)

\* the session dicts something still refers to
Referenced(us, sw) ==
    {us[i].session : i \in 1..Len(us)}
        \cup {sw.items[i].session : i \in 1..Len(sw.items)}
        \cup (IF sw.cur = NoItem THEN {} ELSE {sw.cur.session})

\* reference counting frees a dict nothing refers to
Collect(h, us, sw) == [o \in Referenced(us, sw) |-> h[o]]

\* log_user_activity: the entry it appends
ActivityEntry(ip, action, filename) ==
    [timestamp |-> wall, ip |-> ip, action |-> action, filename |-> filename]

\* the request handlers may log one more entry
ActivityRoom == Len(activity) < MaxActivity

\* the sessions of a dict that the test of line 186 finds idle at time now
IdleAt(us, h, now) ==
    {us[i].ip : i \in {j \in 1..Len(us) : now - h[us[j].session].last_activity > IdleMinutes}}

\* startIdle: the IPs whose session was idle when the cycle took its snapshot;
\* touched: the IPs a handler served since; kicked: the IPs whose kick was
\* attempted; failed: the IPs whose try block ended in the except
NoCycle == [startIdle |-> {}, touched |-> {}, kicked |-> {}, failed |-> {}]

\* the try block around the whole for loop instead of inside it: a fault
\* ends the cycle
AfterItem_Abort(faulted) == IF faulted THEN "sleep" ELSE "scan"

\* where the sweep goes after an IP whose try block ended (normally or in the
\* bare except): on to the next entry of the snapshot
AfterItem(faulted) == "scan"

InitSessions ==
    /\ wall = 0
    /\ user_sessions = <<>>
    /\ heap = <<>>
    /\ activity = <<>>
    /\ uploads = {}
    /\ sweep = [pc |-> "sleep", now |-> 0, items |-> <<>>, cur |-> NoItem, wakeAt |-> 0]
    /\ cycle = NoCycle
    /\ disconnected = {}

\* time passes, an idle threshold at a time
WallTick ==
    /\ wall + IdleMinutes <= MaxTicks * IdleMinutes
    /\ wall' = wall + IdleMinutes
    /\ UNCHANGED <<user_sessions, heap, activity, uploads, sweep, cycle,
                   disconnected, mainVars>>

\* a handler has served a request of this IP while a sweep cycle is in progress
Touch(ip) ==
    IF sweep.pc = "sleep" THEN cycle ELSE [cycle EXCEPT !.touched = @ \cup {ip}]

\* GET / : a failing log_user_activity ends the request before line 121
SessIndex(r, logOk) ==
    LET client_ip == SessClientIp(r)
        fresh     == CHOOSE o \in ObjIds : o \notin Referenced(user_sessions, sweep)
        us        == Assign(user_sessions, client_ip, fresh)
        made      == [o \in DOMAIN heap \cup {fresh} |->
                         IF o = fresh
                         THEN [connected_at |-> wall, last_activity |-> wall]
                         ELSE heap[o]]
    IN  /\ ActivityRoom
        /\ IF logOk
           THEN /\ activity' = Append(activity, ActivityEntry(client_ip, "connected", NoName))
                /\ user_sessions' = us
                /\ heap' = Collect(made, us, sweep)
                /\ disconnected' = disconnected \ {client_ip}
           ELSE UNCHANGED <<activity, user_sessions, heap, disconnected>>
        /\ cycle' = Touch(client_ip)
        /\ UNCHANGED <<wall, uploads, sweep, mainVars>>

\* GET or POST /upload
SessUpload(r, post, logOk) ==
    LET client_ip == SessClientIp(r)
        saving    == post.method = "POST" /\ post.field /\ post.filename # NoName
        filename  == SecureFilename(post.filename)
    IN  /\ saving => ActivityRoom
        /\ heap' = IF client_ip \in Keys(user_sessions)
                   THEN [heap EXCEPT ![Lookup(user_sessions, client_ip)].last_activity = wall]
                   ELSE heap
        /\ uploads' = IF saving THEN uploads \cup {filename} ELSE uploads
        /\ activity' = IF saving /\ logOk
                       THEN Append(activity, ActivityEntry(client_ip, "uploaded", filename))
                       ELSE activity
        /\ cycle' = Touch(client_ip)
        /\ UNCHANGED <<wall, user_sessions, sweep, disconnected, mainVars>>

\* GET /disconnect/<ip>: check=True and a bare except
SessDisconnect(ip, outcome) ==
    /\ disconnected' = disconnected \cup {ip}
    /\ cycle' = Touch(ip)
    /\ UNCHANGED <<wall, user_sessions, heap, activity, uploads, sweep, mainVars>>

\* check_and_disconnect, lines 183-184: a cycle starts; now and the snapshot
\* list(user_sessions.items()) are taken
SweepWake ==
    /\ sweep.pc = "sleep"
    /\ wall >= sweep.wakeAt
    /\ sweep' = [sweep EXCEPT !.pc = "scan", !.now = wall, !.items = user_sessions,
                              !.cur = NoItem]
    /\ cycle' = [NoCycle EXCEPT !.startIdle = IdleAt(user_sessions, heap, wall)]
    /\ UNCHANGED <<wall, user_sessions, heap, activity, uploads,
                   disconnected, mainVars>>

\* lines 184-186 and 193: the next entry of the snapshot and the idleness test,
\* or the end of the loop and time.sleep(300)
SweepExamine ==
    /\ sweep.pc = "scan"
    /\ IF sweep.items = <<>>
       THEN /\ sweep' = [sweep EXCEPT !.pc = "sleep", !.cur = NoItem,
                                      !.wakeAt = wall + SleepMinutes]
            /\ heap' = Collect(heap, user_sessions, sweep')
            /\ cycle' = NoCycle
       ELSE LET item == Head(sweep.items)
                idle == sweep.now - heap[item.session].last_activity > IdleMinutes
            IN  /\ sweep' = [sweep EXCEPT !.items = Tail(@),
                                          !.pc = IF idle THEN "kick" ELSE "scan",
                                          !.cur = IF idle THEN item ELSE NoItem]
                /\ heap' = Collect(heap, user_sessions, sweep')
                /\ UNCHANGED cycle
    /\ UNCHANGED <<wall, user_sessions, activity, uploads, disconnected, mainVars>>

\* line 188: subprocess.run without check; only a script that cannot be
\* started raises
SweepKick(outcome) ==
    /\ sweep.pc = "kick"
    /\ LET faulted == outcome = "oserror"
       IN  /\ sweep' = [sweep EXCEPT
                           !.pc = IF faulted THEN AfterItem(TRUE) ELSE "log",
                           !.cur = IF faulted THEN NoItem ELSE @]
           /\ cycle' = [cycle EXCEPT
                           !.kicked = @ \cup {sweep.cur.ip},
                           !.failed = @ \cup (IF faulted THEN {sweep.cur.ip} ELSE {})]
    /\ heap' = Collect(heap, user_sessions, sweep')
    /\ UNCHANGED <<wall, user_sessions, activity, uploads, disconnected, mainVars>>

\* line 189: log_user_activity(ip, 'auto_disconnected')
SweepLog(logOk) ==
    /\ sweep.pc = "log"
    /\ sweep' = [sweep EXCEPT !.pc = IF logOk THEN "del" ELSE AfterItem(TRUE),
                              !.cur = IF logOk THEN @ ELSE NoItem]
    /\ activity' = IF logOk
                   THEN Append(activity, ActivityEntry(sweep.cur.ip, "auto_disconnected", NoName))
                   ELSE activity
    /\ cycle' = IF logOk THEN cycle
                ELSE [cycle EXCEPT !.failed = @ \cup {sweep.cur.ip}]
    /\ heap' = Collect(heap, user_sessions, sweep')
    /\ UNCHANGED <<wall, user_sessions, uploads, disconnected, mainVars>>

\* line 190: del user_sessions[ip]; a missing key raises KeyError
SweepDel ==
    /\ sweep.pc = "del"
    /\ LET ip      == sweep.cur.ip
           present == ip \in Keys(user_sessions)
       IN  /\ sweep' = [sweep EXCEPT !.pc = AfterItem(~present), !.cur = NoItem]
           /\ user_sessions' = IF present THEN Delete(user_sessions, ip) ELSE user_sessions
           /\ cycle' = IF present THEN cycle ELSE [cycle EXCEPT !.failed = @ \cup {ip}]
           /\ heap' = Collect(heap, user_sessions', sweep')
    /\ UNCHANGED <<wall, activity, uploads, disconnected, mainVars>>

\* ---------------------------------------------------------- specifications

Init == InitMain /\ InitSessions

\* main.py: the handlers that write or read the upload directory, and the
\* clock; /stats with a count command that answers "2"
NextUploads ==
    \/ Tick
    \/ \E r \in Requests, files \in Batches : UploadPost(FreeWorker, r, files)
    \/ \E w \in Workers : UploadFile(w)
    \/ \E w \in Workers : UploadDone(w)
    \/ Gallery
    \/ Stats(CountsTwo)

SpecUploads == Init /\ [][NextUploads]_vars

\* main.py: the handlers that only log and run the hotspot script
NextControl ==
    \/ \E r \in Requests : Index(r)
    \/ \E r \in Requests : UploadGet(r)
    \/ \E r \in Requests, outcome \in KickOutcomes : AutoDisconnect(r, outcome)
    \/ ServeImage
    \/ \E run \in CountRuns : Stats(run)

SpecControl == Init /\ [][NextControl]_vars

\* qr-code.py: the sweep thread beside the handlers that write the session
\* dict; the /upload requests are those that save no file (the others add
\* only log entries and files, and run under SpecLifecycle)
NextSessions ==
    \/ WallTick
    \/ \E r \in SessRequests, logOk \in BOOLEAN : SessIndex(r, logOk)
    \/ \E r \in SessRequests, post \in {p \in Posts : p.filename = NoName} :
           SessUpload(r, post, TRUE)
    \/ SweepWake
    \/ SweepExamine
    \/ \E outcome \in KickOutcomes : SweepKick(outcome)
    \/ \E logOk \in BOOLEAN : SweepLog(logOk)
    \/ SweepDel

SpecSessions == Init /\ [][NextSessions]_vars

\* qr-code.py: the request handlers alone
NextLifecycle ==
    \/ WallTick
    \/ \E r \in SessRequests, logOk \in BOOLEAN : SessIndex(r, logOk)
    \/ \E r \in SessRequests, post \in Posts, logOk \in BOOLEAN :
           SessUpload(r, post, logOk)
    \/ \E ip \in IPs, outcome \in KickOutcomes : SessDisconnect(ip, outcome)

SpecLifecycle == Init /\ [][NextLifecycle]_vars

\* ------------------------------------------------------------------ claims

Last(q) == q[Len(q)]

AllEmptyNames(files) == \A i \in 1..Len(files) : files[i] = NoName

\* the last response is that of a POST /upload that went through the loop
UploadAnswered == resp.route = "upload_post" /\ resp.status = 200

\* that POST /upload saved nothing, reported nothing and logged count 0
NothingUploaded ==
    /\ resp.status = 200
    /\ resp.view = "upload_success.html"
    /\ resp.total_uploaded = 0
    /\ resp.files = <<>>
    /\ resp.written = {}
    /\ log # <<>>
    /\ Last(log).action = "uploaded"
    /\ Last(log).ip = resp.ip
    /\ Last(log).count = 0

\* C1 as claimed: whenever the kick of a GET /disconnect fails, by a non-zero
\* exit or because the script cannot be started, the response is the
\* manual-instructions view with a non-error status.
C1_KickFailureFallsBack ==
    (resp.route = "disconnect" /\ resp.kick # "ok")
        => (resp.status = 200 /\ resp.view = "disconnect_manual.html")

\* C2 as claimed: whenever the count command of a GET /stats exits with
\* status 0 and prints something that is no integer, the response is the
\* normal one with current_connections = 0.
C2_UnparseableCountIsZero ==
    (/\ resp.route = "stats"
     /\ resp.run.kind = "ran"
     /\ resp.run.rc = 0
     /\ ~ParseInt(resp.run.out).ok)
        => (resp.status = 200 /\ resp.current_connections = 0)

\* C3 as claimed: a POST /upload whose file list is empty or holds only empty
\* file names is answered with success and total_uploaded = 0, logs an
\* 'uploaded' event with count 0 and writes no file.
C3_EmptyUploadSucceeds ==
    (resp.route = "upload_post" /\ AllEmptyNames(resp.raw)) => NothingUploaded

\* C3 amended: a POST /upload whose file list is not empty and holds only
\* empty file names is answered with success and total_uploaded = 0, logs an
\* 'uploaded' event with count 0 and writes no file; a POST /upload without
\* any file entry is answered with status 400 and writes no file.
C3_AllEmptyNamesSucceed ==
    /\ (resp.route = "upload_post" /\ resp.raw # <<>> /\ AllEmptyNames(resp.raw))
           => NothingUploaded
    /\ (resp.route = "upload_post" /\ resp.raw = <<>>)
           => (resp.status = 400 /\ resp.written = {} /\ resp.total_uploaded = 0)

C3_Witness ==
    /\ UploadAnswered
    /\ resp.raw = <<NoName, NoName>>
    /\ dir # {}

\* C4 as claimed: every file saved has a stored name of its own, so the upload
\* directory holds as many files as were saved (and reported as uploaded).
C4_StoredNamesUnique == Cardinality(dir) = Len(saves)

\* the extension test as the claim words it
HasImageExtension(f) ==
    LET l == LowerStr(f)
    IN  \/ EndsWith(l, <<46, 112, 110, 103>>)
        \/ EndsWith(l, <<46, 106, 112, 103>>)
        \/ EndsWith(l, <<46, 106, 112, 101, 103>>)
        \/ EndsWith(l, <<46, 103, 105, 102>>)

\* the place in the history of the last save of f before the gallery was listed
LastSave(f) ==
    CHOOSE i \in 1..resp.upto :
        saves[i].name = f /\ \A j \in (i + 1)..resp.upto : saves[j].name # f

\* the clock second in which f was saved
SavedAt(f) == saves[LastSave(f)].at

\* GET /gallery lists exactly the stored files with an image extension, once each
GalleryListsImages ==
    /\ {resp.images[i] : i \in 1..Len(resp.images)}
           = {f \in resp.seen : HasImageExtension(f)}
    /\ Len(resp.images) = Cardinality({f \in resp.seen : HasImageExtension(f)})

C6_RefreshedSessionSurvives ==
    [][ (/\ sweep.pc \in {"kick", "del"}
         /\ sweep'.pc # sweep.pc
         /\ sweep.cur.ip \in Keys(user_sessions))
            => wall - heap[Lookup(user_sessions, sweep.cur.ip)].last_activity
                   > IdleMinutes ]_vars

\* C7 as claimed: when a sweep cycle has gone through its snapshot, every
\* session that was idle and got no request since has had its kick attempted
\* and is gone from the dict, whatever the kick's outcome; and a session is
\* only removed after its kick was attempted.
C7_IdleSessionKickedThenRemoved ==
    /\ (sweep.pc = "scan" /\ sweep.items = <<>>) =>
           \A ip \in cycle.startIdle \ cycle.touched :
               ip \in cycle.kicked /\ ip \notin Keys(user_sessions)
    /\ sweep.pc = "del" => sweep.cur.ip \in cycle.kicked

\* C8 as claimed: once a /disconnect request for an IP has been handled, the
\* session dict holds no entry for that IP until a visit of / recreates it.
C8_DisconnectRemovesSession == disconnected \cap Keys(user_sessions) = {}

\* the 'disconnected' entries of the event log for an IP
DisconnectedEntries(ip) ==
    {i \in 1..Len(log) : log[i].action = "disconnected" /\ log[i].ip = ip}

\* C9: the event log holds, for every IP, exactly one 'disconnected' entry per
\* GET /disconnect whose kick of that IP exited with status 0, appended by
\* that request; a GET /disconnect whose kick failed appends nothing.
C9_DisconnectedLoggedPerSuccessfulKick ==
    /\ \A ip \in IPs : Cardinality(DisconnectedEntries(ip)) = okKicks[ip]
    /\ (resp.route = "disconnect" /\ resp.kick = "ok") =>
           /\ log # <<>>
           /\ Last(log).action = "disconnected"
           /\ Last(log).ip = resp.ip
           /\ Last(log).details = "user_requested"
    /\ (resp.route = "disconnect" /\ resp.kick # "ok") =>
           resp.view # "disconnected.html"

C9_Witness ==
    /\ resp.route = "disconnect"
    /\ resp.kick = "nonzero"
    /\ okKicks[resp.ip] = 1
    /\ Len(log) >= 2

\* C10: a fault while kicking, logging or removing one IP does not end the
\* sweep cycle: the thread only goes to sleep once it has gone through its
\* whole snapshot, by then every session that was idle at the start of the
\* cycle and got no request since has had its kick attempted, and the thread
\* stays in its loop.
C10_FaultDoesNotAbortCycle ==
    /\ sweep.pc \in {"sleep", "scan", "kick", "log", "del"}
    /\ sweep.pc = "sleep" => (sweep.items = <<>> /\ cycle = NoCycle)
    /\ (sweep.pc = "scan" /\ sweep.items = <<>>) =>
           \A ip \in cycle.startIdle \ cycle.touched : ip \in cycle.kicked

C10_Witness ==
    /\ sweep.pc = "scan"
    /\ sweep.items = <<>>
    /\ cycle.touched = {}
    /\ cycle.failed # {}
    /\ \E ip \in cycle.startIdle : ip \in cycle.kicked \ cycle.failed

====
